---- MODULE Spec2Model ----
(***************************************************************************)
(* Model of shiny express mode (shiny/express/_run.py,                     *)
(* shiny/express/_recall_context.py) and of the data frame adapter         *)
(* (shiny/render/_data_frame_utils/_tbl_data.py).                          *)
(*                                                                         *)
(* Spec      one interpreter running run_express again and again           *)
(* SpecConc  two run_express executions interleaved between top-level      *)
(*           statements (two threads of one process)                       *)
(* SpecFrame the frame functions applied to frames drawn from fixtures     *)
(* SpecApp   wrap_express_app and the sessions its App serves              *)
(***************************************************************************)
EXTENDS Integers, Sequences, FiniteSets, TLC

\* ------------------------------------------------------------------ bounds
\* top-level statements (and with-block boundaries) of one execution
MaxStmts == 3
\* contexts alive at once (never reached while earlier executions' contexts
\* are collected)
MaxHeap == 12
\* depth of nested with-blocks in a script
MaxDepth == 2
\* statements of one execution when two executions are interleaved
MaxConcStmts == 2
\* rows and columns of the frames the frame functions are applied to
MaxRows == 3
MaxCols == 2
\* cell patches applied to one frame and the frames derived from it
MaxPatches == 2
\* length of the rows and of the cols argument of subset_frame
MaxSel == 2
\* statements of one execution of the script under wrap_express_app
MaxAppStmts == 2
\* sessions served by the App that wrap_express_app builds
MaxRequests == 2

\* ------------------------------------------------------------------ values
\* A Python value is <<kind, payload>>.  kind is what append_arg tests for:
\* "Tag" (Tag, TagList, Tagifiable), "ReprHtml" (has _repr_html_), "Other",
\* "None".  The payload of an atom is <<name>>; the payload of the value a
\* wrapped function returns is <<fn, args, kwargs>>.
NoneVal == <<"None", <<"None">>>>
TagA == <<"Tag", <<"a">>>>
TagB == <<"Tag", <<"b">>>>
ScriptVals == {TagA, <<"ReprHtml", <<"df">>>>, <<"Other", <<"5">>>>, NoneVal}
ConcVals == {TagA, TagB}

\* htmltools.HTML(value._repr_html_())
HTML(v) == <<"Tag", <<"HTML", v[2]>>>>
\* htmltools.tags.pre(repr(value))
pre_repr(v) == <<"Tag", <<"pre", v[2]>>>>
\* the value fn(*args, **kwargs) returns: a tag built from its arguments
Call(fn, args, kwargs) == <<"Tag", <<fn, args, kwargs>>>>
\* htmltools.TagList()
EmptyTagList == <<"Tag", <<"TagList", <<>>, <<>>>>>>

DEFAULT_PAGE_FUNCTION == "page_fluid"

\* ------------------------------------------------------------------ state
VARIABLES
    ctxs,      \* the RecallContextManager objects alive, by identity
    hook,      \* sys.displayhook
    top,       \* _run._top_level_recall_context_manager (0: not yet bound)
    replaced,  \* _run._top_level_recall_context_manager_has_been_replaced
    ui,        \* ui_result of each execution of run_express
    calls,     \* log: the invocations of wrapped functions (self.fn(...))
    exec,      \* each execution of run_express: where it is, its locals
    app,       \* wrap_express_app: where it is, the App it built, its handler
    bufs,      \* the column buffers (arrays of cells) alive, by identity
    frames,    \* the data frames alive: variant, column names, dtypes, buffers
    born,      \* log: the cells of each frame when it was made
    session,   \* whether a session is active (session context variable)
    fixture,   \* which kind of frame the first frame is
    patches_left, \* cell patches still allowed
    out        \* the last call of a frame function: arguments and result

evars == <<ctxs, hook, top, replaced, ui, calls, exec, app>>
fvars == <<bufs, frames, born, session, fixture, patches_left, out>>
vars == <<ctxs, hook, top, replaced, ui, calls, exec, app,
          bufs, frames, born, session, fixture, patches_left, out>>

Execs == {1, 2}

\* sys.displayhook is the interpreter's own, a set_result closure of
\* execution e, or the bound method append_arg of context c
OrigHook == <<"orig", 0>>
SetResult(e) == <<"set_result", e>>
AppendArgOf(c) == <<"append_arg", c>>

\* RecallContextManager.__init__; prev is _prev_displayhook, an attribute
\* that does not exist before __enter__; the rest is bookkeeping: state,
\* owner (the execution that built it), before (the hook installed when
\* __enter__ installed its own), exit_hook (the hook installed when
\* __exit__ has run its first statement)
NewContext(fn, default_page, args, kwargs, e) ==
    [fn |-> fn, default_page |-> default_page, args |-> args,
     kwargs |-> kwargs, prev |-> <<"unset", 0>>, state |-> "Idle",
     owner |-> e, before |-> <<"unset", 0>>, exit_hook |-> <<"unset", 0>>]

\* the process globals and the heap, as one value the methods transform
World == [ctxs |-> ctxs, hook |-> hook, top |-> top, replaced |-> replaced,
          ui |-> ui, calls |-> calls]

\* ------------------------------------------------------------------ _recall_context.py
\* append_arg inserting at the front
append_arg_front(args, value) ==
    IF value[1] = "Tag" THEN <<value>> \o args
    ELSE IF value[1] = "ReprHtml" THEN <<HTML(value)>> \o args
    ELSE IF value # NoneVal THEN <<pre_repr(value)>> \o args
    ELSE args

\* append_arg that shows a null like any other value
append_arg_shows_none(args, value) ==
    IF value[1] = "Tag" THEN Append(args, value)
    ELSE IF value[1] = "ReprHtml" THEN Append(args, HTML(value))
    ELSE Append(args, pre_repr(value))

\* RecallContextManager.append_arg: the new self.args
append_arg(args, value) ==
    IF value[1] = "Tag" THEN Append(args, value)
    ELSE IF value[1] = "ReprHtml" THEN Append(args, HTML(value))
    ELSE IF value # NoneVal THEN Append(args, pre_repr(value))
    ELSE args

\* sys.displayhook(value): the call goes to whatever is installed
displayhook(W, value) ==
    IF W.hook[1] = "append_arg"
    THEN [W EXCEPT !.ctxs[W.hook[2]].args = append_arg(@, value)]
    ELSE IF W.hook[1] = "set_result"
    THEN [W EXCEPT !.ui[W.hook[2]] = value]
    ELSE W

\* a dict as the sequence of its <<key, value>> items, in insertion order
HasKey(d, k) == \E i \in 1..Len(d) : d[i][1] = k
SetItem(d, k, v) ==
    IF HasKey(d, k)
    THEN [i \in 1..Len(d) |-> IF d[i][1] = k THEN <<k, v>> ELSE d[i]]
    ELSE Append(d, <<k, v>>)
\* an update in which the items already there are kept
dict_update_old_wins(d, other) ==
    d \o SelectSeq(other, LAMBDA it : ~HasKey(d, it[1]))

RECURSIVE dict_update(_, _)
\* d.copy() then .update(other)
dict_update(d, other) ==
    IF other = <<>> THEN d
    ELSE dict_update(SetItem(d, Head(other)[1], Head(other)[2]), Tail(other))

\* __exit__ calling the wrapped function before it restores the hook
ctx_exit_late_restore(W, c, exc_type, fn_ok) ==
    LET me == W.ctxs[c]
        rec == [ctx |-> c, fn |-> me.fn, args |-> me.args,
                kwargs |-> me.kwargs, raised |-> ~fn_ok]
        W1 == [W EXCEPT !.ctxs[c].state = "Exited",
                        !.ctxs[c].exit_hook = W.hook]
        W2 == [W1 EXCEPT !.calls = Append(@, rec)]
        W3 == IF exc_type # "None" THEN W1
              ELSE IF fn_ok THEN displayhook(W2, Call(me.fn, me.args, me.kwargs))
              ELSE W2
    IN  [W3 EXCEPT !.hook = me.prev]

\* RecallContextManager.__exit__(exc_type, ...), exc_type "None" or an
\* exception class; fn_ok = FALSE: the wrapped function raises.
\* It returns False in every case: see exit_returns.
ctx_exit(W, c, exc_type, fn_ok) ==
    LET W1 == [W EXCEPT !.hook = W.ctxs[c].prev, !.ctxs[c].state = "Exited",
                        !.ctxs[c].exit_hook = W.ctxs[c].prev]
        me == W.ctxs[c]
        rec == [ctx |-> c, fn |-> me.fn, args |-> me.args,
                kwargs |-> me.kwargs, raised |-> ~fn_ok]
        W2 == [W1 EXCEPT !.calls = Append(@, rec)]
    IN  IF exc_type = "None"
        THEN IF fn_ok THEN displayhook(W2, Call(me.fn, me.args, me.kwargs))
             ELSE W2
        ELSE W1

\* the value __exit__ returns
exit_returns(exc_type) == FALSE

RECURSIVE ctx_enter(_, _)
RECURSIVE replace_top_level_recall_context_manager(_, _, _)

\* replace_top_level_recall_context_manager never setting the flag
replace_forgets_flag(W, cm, force) ==
    LET old_cm == W.top
        W1 == [W EXCEPT
                 !.ctxs[cm].args = W.ctxs[old_cm].args \o W.ctxs[cm].args,
                 !.ctxs[cm].kwargs =
                     dict_update(W.ctxs[old_cm].kwargs, W.ctxs[cm].kwargs)]
        W2 == ctx_exit(W1, old_cm, "BaseException", TRUE)
        W3 == ctx_enter(W2, cm)
    IN  IF force = FALSE /\ W.replaced THEN W
        ELSE [W3 EXCEPT !.top = cm]

\* replace_top_level_recall_context_manager leaving the old context as a
\* with-block is left, without an exception
replace_exits_old_cleanly(W, cm, force) ==
    LET old_cm == W.top
        W1 == [W EXCEPT
                 !.ctxs[cm].args = W.ctxs[old_cm].args \o W.ctxs[cm].args,
                 !.ctxs[cm].kwargs =
                     dict_update(W.ctxs[old_cm].kwargs, W.ctxs[cm].kwargs)]
        W2 == ctx_exit(W1, old_cm, "None", TRUE)
        W3 == ctx_enter(W2, cm)
    IN  IF force = FALSE /\ W.replaced THEN W
        ELSE [W3 EXCEPT !.top = cm, !.replaced = TRUE]

\* _run.replace_top_level_recall_context_manager(cm, force): the globals
\* and the heap afterwards
replace_top_level_recall_context_manager(W, cm, force) ==
    LET old_cm == W.top
        W1 == [W EXCEPT
                 !.ctxs[cm].args = W.ctxs[old_cm].args \o W.ctxs[cm].args,
                 !.ctxs[cm].kwargs =
                     dict_update(W.ctxs[old_cm].kwargs, W.ctxs[cm].kwargs)]
        W2 == ctx_exit(W1, old_cm, "BaseException", TRUE)
        W3 == ctx_enter(W2, cm)
    IN  IF force = FALSE /\ W.replaced THEN W
        ELSE [W3 EXCEPT !.top = cm, !.replaced = TRUE]

\* the value replace_top_level_recall_context_manager returns: old_cm
replace_returns(W, cm, force) == W.top

\* __enter__ that leaves the top-level slot alone
ctx_enter_never_replaces(W, c) ==
    [W EXCEPT !.ctxs[c].prev = W.hook,
              !.ctxs[c].before = W.hook,
              !.ctxs[c].state = "Capturing",
              !.hook = AppendArgOf(c)]

\* __enter__ saving the hook before it asks for the replacement
ctx_enter_saves_first(W, c) ==
    LET W1 == IF W.ctxs[c].default_page # 0
              THEN replace_top_level_recall_context_manager(
                       W, W.ctxs[c].default_page, FALSE)
              ELSE W
    IN  [W1 EXCEPT !.ctxs[c].prev = W.hook,
                   !.ctxs[c].before = W1.hook,
                   !.ctxs[c].state = "Capturing",
                   !.hook = AppendArgOf(c)]

\* RecallContextManager.__enter__
ctx_enter(W, c) ==
    LET W1 == IF W.ctxs[c].default_page # 0
              THEN replace_top_level_recall_context_manager(
                       W, W.ctxs[c].default_page, FALSE)
              ELSE W
    IN  [W1 EXCEPT !.ctxs[c].prev = W1.hook,
                   !.ctxs[c].before = W1.hook,
                   !.ctxs[c].state = "Capturing",
                   !.hook = AppendArgOf(c)]

\* ------------------------------------------------------------------ _run.py
\* reset_top_level_recall_context_manager keeping the context once bound
reset_keeps_context(W, e) ==
    IF W.top = 0
    THEN [W EXCEPT
            !.ctxs = Append(@, NewContext(DEFAULT_PAGE_FUNCTION, 0, <<>>, <<>>, e)),
            !.top = Len(W.ctxs) + 1,
            !.replaced = FALSE]
    ELSE [W EXCEPT !.replaced = FALSE]

\* reset_top_level_recall_context_manager, called by execution e
reset_top_level_recall_context_manager(W, e) ==
    [W EXCEPT
       !.ctxs = Append(@, NewContext(DEFAULT_PAGE_FUNCTION, 0, <<>>, <<>>, e)),
       !.top = Len(W.ctxs) + 1,
       !.replaced = FALSE]

\* get_top_level_recall_context_manager
get_top_level_recall_context_manager(W) == W.top

\* var_context as run_express seeds it: __file__ and the display decorator
SeedNames == {"__file__", "display_decorator_func_name"}

\* run_express up to the loop over tree.body (lines 74-90), in execution e
run_express_begin(W, e) ==
    LET W1 == [W EXCEPT !.ui[e] = EmptyTagList, !.hook = SetResult(e)]
        W2 == reset_top_level_recall_context_manager(W1, e)
    IN  ctx_enter(W2, get_top_level_recall_context_manager(W2))

\* run_express after the loop (line 107)
run_express_end(W, fn_ok) ==
    ctx_exit(W, get_top_level_recall_context_manager(W), "None", fn_ok)

RECURSIVE unwind(_, _)
\* an exception leaving the with-blocks open on stack (innermost last):
\* the with statement calls each __exit__ with the exception; none handles it
unwind(W, stack) ==
    IF stack = <<>> THEN W
    ELSE unwind(ctx_exit(W, stack[Len(stack)], "Exception", TRUE),
                SubSeq(stack, 1, Len(stack) - 1))

\* The contexts of earlier executions are garbage once nothing refers to
\* them: when the newest context is the only one the globals and the
\* executions in progress can reach, the heap is that context alone
Collect(W, e) ==
    LET n == Len(W.ctxs) IN
    IF /\ n > 1
       /\ W.top = n
       /\ W.hook = AppendArgOf(n)
       /\ W.ctxs[n].prev[1] # "append_arg"
       /\ W.ctxs[n].default_page = 0
       /\ \A o \in Execs \ {e} : exec[o].pc # "running"
    THEN [W EXCEPT !.ctxs = <<W.ctxs[n]>>, !.top = 1,
                   !.hook = AppendArgOf(1), !.calls = <<>>]
    ELSE W

\* ------------------------------------------------------------------ the script
\* what scripts construct: RecallContextManager(fn, args=..., kwargs=...)
CtxArgs == {<<>>, <<TagB>>}
\* the <<args, kwargs>> of the page contexts scripts install
PageCtxs == {<<<<TagB>>, <<<<"title", "x">>>>>>,
             <<<<>>, <<<<"title", "y">>, <<"lang", "en">>>>>>}

\* One execution of run_express.  pc, var_context, stack (the with-blocks
\* open, innermost last) and ret are the program's; the rest is bookkeeping
\* the properties read: left (statements still allowed), last (the step
\* taken last), shown (the values of its expression statements), plain (no with and no replacement so far), nreplace (calls
\* of replace_top_level_recall_context_manager so far, counted up to 2),
\* cm, cm_args, cm_kwargs, force, replace_ret (the last such call by a
\* statement), page_call (the call its line 107 made), prior (how the
\* execution before it ended)
IdleExec == [pc |-> "idle", var_context |-> {}, stack |-> <<>>, left |-> 0,
             last |-> "none", shown |-> <<>>, plain |-> TRUE, ret |-> NoneVal,
             nreplace |-> 0, cm |-> 0, cm_args |-> <<>>, cm_kwargs |-> <<>>,
             force |-> FALSE, replace_ret |-> 0, page_call |-> <<>>,
             prior |-> "none"]

Min(a, b) == IF a < b THEN a ELSE b

NoCall == [op |-> "none", status |-> "none", src |-> 0, res |-> 0,
           patches |-> <<>>, rows |-> <<"all">>, cols |-> <<"all">>,
           json |-> <<>>, lookups |-> 0, input |-> <<>>]

\* no frame exists
NoFrames ==
    /\ bufs = <<>>
    /\ frames = <<>>
    /\ born = <<>>
    /\ session = FALSE
    /\ fixture = "none"
    /\ patches_left = 0
    /\ out = NoCall

\* wrap_express_app has not been called: state is where the call is ("none",
\* "initial": in its run_express, "built": it returned the App, "failed": its
\* run_express raised, "config_error": the ValueError of line 43), ui the
\* app_ui given to App, handler where express_server is ("idle", "running",
\* "returned", "raised"), raised the exception that left it, log the
\* tracebacks printed, requests the calls of express_server so far
NoApp == [state |-> "none", ui |-> NoneVal, handler |-> "idle",
          raised |-> "none", log |-> <<>>, requests |-> 0]

ExpressInit ==
    /\ app = NoApp
    /\ ctxs = <<>>
    /\ hook = OrigHook
    /\ top = 0
    /\ replaced = FALSE
    /\ ui = [e \in Execs |-> NoneVal]
    /\ calls = <<>>
    /\ exec = [e \in Execs |-> IdleExec]

Init == ExpressInit /\ NoFrames

InstallWorld(W) ==
    /\ ctxs' = W.ctxs
    /\ hook' = W.hook
    /\ top' = W.top
    /\ replaced' = W.replaced
    /\ ui' = W.ui
    /\ calls' = W.calls
    /\ UNCHANGED fvars

\* a step of the script or of run_express: wrap_express_app is not involved
Install(W) == InstallWorld(W) /\ UNCHANGED app

Running(e) == exec[e].pc = "running"
CanRun(e) == Running(e) /\ exec[e].left > 0

\* run_express is called (lines 66-90): the script is parsed, the hook and
\* the top-level context are set up, var_context is seeded
BeginRun(e, budget) ==
    /\ exec[e].pc # "running"
    /\ Len(ctxs) < MaxHeap
    /\ InstallWorld(Collect(run_express_begin(World, e), e))
    /\ exec' = [exec EXCEPT ![e] = [IdleExec EXCEPT
             !.pc = "running",
             !.var_context = SeedNames,
             !.left = budget,
             !.last = "start",
             !.prior = IF exec[e].pc = "idle" THEN "none"
                       ELSE IF exec[e].pc = "raised" /\ replaced
                            THEN "raised_replaced" ELSE "other"]]

\* run_express is called on its own
StartRun(e, budget) == BeginRun(e, budget) /\ UNCHANGED app

\* a top-level expression statement whose value is v, compiled in "single"
\* mode (line 102): the value goes to sys.displayhook
ExprStmt(e, v) ==
    /\ CanRun(e)
    /\ Install(displayhook(World, v))
    /\ exec' = [exec EXCEPT ![e].left = @ - 1,
                            ![e].last = "expr",
                            ![e].shown = Append(@, v)]

\* a top-level statement that is no expression (x = 5): nothing is displayed
AssignStmt(e) ==
    /\ CanRun(e)
    /\ exec' = [exec EXCEPT ![e].left = @ - 1,
                            ![e].last = "assign",
                            ![e].var_context = @ \cup {"x"}]
    /\ UNCHANGED <<ctxs, hook, top, replaced, ui, calls, app>>
    /\ UNCHANGED fvars

\* a top-level def, compiled in "exec" mode (lines 94-99)
FuncDefStmt(e) ==
    /\ CanRun(e)
    /\ exec' = [exec EXCEPT ![e].left = @ - 1,
                            ![e].last = "def",
                            ![e].var_context = @ \cup {"f"}]
    /\ UNCHANGED <<ctxs, hook, top, replaced, ui, calls, app>>
    /\ UNCHANGED fvars

\* `with RecallContextManager(fn, args=a, default_page=page):` is reached;
\* with_page: the context is built with a default_page, itself a new context
WithEnter(e, a, with_page) ==
    /\ CanRun(e)
    /\ Len(exec[e].stack) < MaxDepth
    /\ LET n == Len(ctxs)
           page == NewContext("page_sidebar", 0, <<>>, <<>>, e)
           c == IF with_page THEN n + 2 ELSE n + 1
           W0 == IF with_page
                 THEN [World EXCEPT !.ctxs =
                          ctxs \o <<page, NewContext("sidebar", n + 1, a, <<>>, e)>>]
                 ELSE [World EXCEPT !.ctxs =
                          Append(ctxs, NewContext("card", 0, a, <<>>, e))]
       IN  /\ Install(ctx_enter(W0, c))
           /\ exec' = [exec EXCEPT
                         ![e].left = @ - 1,
                         ![e].last = "enter",
                         ![e].plain = FALSE,
                         ![e].nreplace = IF with_page THEN Min(@ + 1, 2) ELSE @,
                         ![e].stack = Append(@, c)]

\* the innermost with-block ends without an exception: __exit__(None, ...);
\* when the wrapped function raises, the exception leaves the enclosing
\* with-blocks and run_express
WithExit(e, fn_ok) ==
    /\ Running(e)
    /\ exec[e].stack # <<>>
    /\ LET st == exec[e].stack
           c == st[Len(st)]
           rest == SubSeq(st, 1, Len(st) - 1)
           W1 == ctx_exit(World, c, "None", fn_ok)
       IN  IF fn_ok
           THEN /\ Install(W1)
                /\ exec' = [exec EXCEPT ![e].stack = rest, ![e].last = "exit"]
           ELSE /\ Install(unwind(W1, rest))
                /\ exec' = [exec EXCEPT ![e].stack = <<>>,
                                        ![e].pc = "raised",
                                        ![e].last = "exit_fn_raised"]

\* a statement raises: the exception leaves every open with-block and then
\* run_express, which has no handler (lines 93-105)
RaiseStmt(e) ==
    /\ CanRun(e)
    /\ LET st == exec[e].stack IN
       IF st # <<>> /\ exit_returns("Exception")
       THEN \* the innermost __exit__ handles it: the script goes on
            /\ Install(ctx_exit(World, st[Len(st)], "Exception", TRUE))
            /\ exec' = [exec EXCEPT ![e].left = @ - 1,
                                    ![e].stack = SubSeq(st, 1, Len(st) - 1),
                                    ![e].last = "raise"]
       ELSE /\ Install(unwind(World, st))
            /\ exec' = [exec EXCEPT ![e].stack = <<>>, ![e].pc = "raised",
                                    ![e].last = "raise"]

\* the script calls replace_top_level_recall_context_manager(cm, force) with
\* a context it has just built (in a statement that displays nothing)
ReplaceStmt(e, force, a, kw) ==
    /\ CanRun(e)
    /\ LET cm == Len(ctxs) + 1
           W0 == [World EXCEPT !.ctxs =
                     Append(ctxs, NewContext("page_sidebar", 0, a, kw, e))]
       IN  /\ Install(replace_top_level_recall_context_manager(W0, cm, force))
           /\ exec' = [exec EXCEPT
                         ![e].left = @ - 1,
                         ![e].last = "replace",
                         ![e].plain = FALSE,
                         ![e].nreplace = Min(@ + 1, 2),
                         ![e].cm = cm, ![e].cm_args = a, ![e].cm_kwargs = kw,
                         ![e].force = force,
                         ![e].replace_ret = replace_returns(W0, cm, force)]

\* the script is over: the top-level context is exited and ui_result is
\* returned (lines 107-108), unless the page function raises
EndRun(e, fn_ok) ==
    /\ Running(e)
    /\ exec[e].stack = <<>>
    /\ LET W1 == run_express_end(World, fn_ok)
       IN  /\ Install(W1)
           /\ exec' = [exec EXCEPT
                         ![e].pc = IF fn_ok THEN "returned" ELSE "raised",
                         ![e].last = IF fn_ok THEN "end" ELSE "end_fn_raised",
                         ![e].page_call = <<W1.calls[Len(W1.calls)]>>,
                         ![e].ret = IF fn_ok THEN W1.ui[e] ELSE NoneVal]

Next ==
    \/ StartRun(1, MaxStmts)
    \/ \E v \in ScriptVals : ExprStmt(1, v)
    \/ AssignStmt(1)
    \/ FuncDefStmt(1)
    \/ \E a \in CtxArgs : WithEnter(1, a, FALSE)
    \/ WithEnter(1, <<>>, TRUE)
    \/ \E ok \in BOOLEAN : WithExit(1, ok)
    \/ RaiseStmt(1)
    \/ \E f \in BOOLEAN, p \in PageCtxs : ReplaceStmt(1, f, p[1], p[2])
    \/ \E ok \in BOOLEAN : EndRun(1, ok)

Spec == Init /\ [][Next]_vars

\* two executions of run_express, interleaved between top-level statements
NextConc ==
    \E e \in Execs :
        \/ exec[e].pc = "idle" /\ StartRun(e, MaxConcStmts)
        \/ \E v \in ConcVals : ExprStmt(e, v)
        \/ ReplaceStmt(e, FALSE, <<>>, <<>>)
        \/ RaiseStmt(e)
        \/ EndRun(e, TRUE)

SpecConc == Init /\ [][NextConc]_vars

\* ------------------------------------------------------------------ wrap_express_app
\* lines 40-47: the file to run, or the ValueError
resolve_file(file_given, env_set) ==
    IF file_given THEN "file"
    ELSE IF env_set THEN "cwd/SHINY_EXPRESS_APP_FILE"
    ELSE "ValueError"

\* express_server's handler catching the exception and returning
express_server_swallows(a, exc) ==
    [a EXCEPT !.handler = "returned", !.log = Append(@, exc)]

\* express_server, lines 55-59: the traceback of exc is printed and exc is
\* raised again
express_server_except(a, exc) ==
    [a EXCEPT !.handler = "raised", !.raised = exc, !.log = Append(@, exc)]

\* the exception that ended execution e: the script's own, or the error of
\* a wrapped function
ExcOf(e) == IF exec[e].last = "raise" THEN "script_error" ELSE "fn_error"

\* wrap_express_app(file) is called (lines 40-49): without a file and
\* without the variable it raises; else it calls run_express
WrapExpressApp(file_given, env_set) ==
    /\ app.state = "none"
    /\ IF resolve_file(file_given, env_set) = "ValueError"
       THEN /\ app' = [app EXCEPT !.state = "config_error", !.raised = "ValueError"]
            /\ UNCHANGED <<ctxs, hook, top, replaced, ui, calls, exec>>
            /\ UNCHANGED fvars
       ELSE /\ BeginRun(1, MaxAppStmts)
            /\ app' = [app EXCEPT !.state = "initial"]

\* the initial run_express returned: App(app_ui, express_server) (line 61)
AppBuilt ==
    /\ app.state = "initial"
    /\ exec[1].pc = "returned"
    /\ app' = [app EXCEPT !.state = "built", !.ui = exec[1].ret]
    /\ UNCHANGED <<ctxs, hook, top, replaced, ui, calls, exec>>
    /\ UNCHANGED fvars

\* the initial run_express raised: wrap_express_app has no handler
AppFailed ==
    /\ app.state = "initial"
    /\ exec[1].pc = "raised"
    /\ app' = [app EXCEPT !.state = "failed", !.raised = ExcOf(1)]
    /\ UNCHANGED <<ctxs, hook, top, replaced, ui, calls, exec>>
    /\ UNCHANGED fvars

\* a session starts: express_server is called and calls run_express (line 53)
Request ==
    /\ app.state = "built"
    /\ app.handler # "running"
    /\ app.requests < MaxRequests
    /\ BeginRun(1, MaxAppStmts)
    /\ app' = [app EXCEPT !.handler = "running", !.raised = "none",
                          !.requests = @ + 1]

\* run_express returned to express_server: its value is dropped
HandlerReturn ==
    /\ app.handler = "running"
    /\ exec[1].pc = "returned"
    /\ app' = [app EXCEPT !.handler = "returned"]
    /\ UNCHANGED <<ctxs, hook, top, replaced, ui, calls, exec>>
    /\ UNCHANGED fvars

\* run_express raised in express_server: the except clause (lines 55-59)
HandlerExcept ==
    /\ app.handler = "running"
    /\ exec[1].pc = "raised"
    /\ app' = express_server_except(app, ExcOf(1))
    /\ UNCHANGED <<ctxs, hook, top, replaced, ui, calls, exec>>
    /\ UNCHANGED fvars

\* the script steps of the execution wrap_express_app or express_server
\* is in
NextApp ==
    \/ \E fg, es \in BOOLEAN : WrapExpressApp(fg, es)
    \/ AppBuilt
    \/ AppFailed
    \/ Request
    \/ HandlerReturn
    \/ HandlerExcept
    \/ \E v \in ConcVals : ExprStmt(1, v)
    \/ WithEnter(1, <<>>, FALSE)
    \/ \E ok \in BOOLEAN : WithExit(1, ok)
    \/ RaiseStmt(1)
    \/ \E ok \in BOOLEAN : EndRun(1, ok)

SpecApp == Init /\ [][NextApp]_vars

\* ------------------------------------------------------------------ _tbl_data.py
\* A cell is <<kind, text>>: kind "num", "str", "null" (JSON values), "html"
\* (a Tag, TagList or other HTML-capable object), "obj" (any other object,
\* such as a date), "rendered" (what wrap_shiny_html returns).
\* A frame is [variant, names, dtypes, cols, nrows]: cols are the buffers
\* that hold its columns; frames may share buffers.

\* the frames and their buffers, as one value the functions transform
FHeap == [bufs |-> bufs, frames |-> frames]

\* the cells of frame f, column by column
FrameCells(H, f) ==
    [c \in 1..Len(H.frames[f].cols) |-> H.bufs[H.frames[f].cols[c]]]

\* frame_shape
frame_shape(H, f) == <<H.frames[f].nrows, Len(H.frames[f].cols)>>

\* frame_column_names
frame_column_names(H, f) == H.frames[f].names

\* get_frame_cell(data, row, col), row and col counted from 0
get_frame_cell(H, f, row, col) == H.bufs[H.frames[f].cols[col + 1]][row + 1]

\* buffer b of frame g is referenced by another frame too
Shared(H, g, b) ==
    \E h \in DOMAIN H.frames :
        h # g /\ \E c \in DOMAIN H.frames[h].cols : H.frames[h].cols[c] = b

\* a write of v at (row, col) of frame g that copies the column first when
\* another frame references it (pandas copy-on-write; a polars Series that
\* is shared)
WriteCopyOnWrite(H, g, row, col, v) ==
    LET b == H.frames[g].cols[col + 1]
        written == [H.bufs[b] EXCEPT ![row + 1] = v]
    IN  IF Shared(H, g, b)
        THEN [H EXCEPT !.bufs = Append(@, written),
                       !.frames[g].cols[col + 1] = Len(H.bufs) + 1]
        ELSE [H EXCEPT !.bufs[b] = written]

\* data.copy(deep=False): a frame on the same buffers; it is frame
\* Len(frames) + 1
pd_copy_shallow(H, f) == [H EXCEPT !.frames = Append(@, H.frames[f])]

\* data.iat[row, col] = value without copy-on-write: the write goes to the
\* buffer, whoever references it
pd_iat_set_in_place(H, g, row, col, v) ==
    [H EXCEPT !.bufs[H.frames[g].cols[col + 1]][row + 1] = v]

\* data.iat[row, col] = value inside option_context("mode.copy_on_write", True)
pd_iat_set(H, g, row, col, v) == WriteCopyOnWrite(H, g, row, col, v)

\* the loop applying the patches last to first
RECURSIVE pd_patch_loop_reversed(_, _, _)
pd_patch_loop_reversed(H, g, patches) ==
    IF patches = <<>> THEN H
    ELSE LET p == patches[Len(patches)] IN
         pd_patch_loop_reversed(
             pd_iat_set(H, g, p.row_index, p.column_index, p.value), g,
             SubSeq(patches, 1, Len(patches) - 1))

RECURSIVE pd_patch_loop(_, _, _)
\* for cell_patch in patches: data.iat[...] = cell_patch["value"]
pd_patch_loop(H, g, patches) ==
    IF patches = <<>> THEN H
    ELSE LET p == Head(patches) IN
         pd_patch_loop(pd_iat_set(H, g, p.row_index, p.column_index, p.value),
                       g, Tail(patches))

\* apply_frame_patches for a pandas frame; the result is the newest frame
apply_frame_patches_pd(H, f, patches) ==
    pd_patch_loop(pd_copy_shallow(H, f), Len(H.frames) + 1, patches)

\* data.clone(): a frame on the same (reference counted) columns
pl_clone(H, f) == [H EXCEPT !.frames = Append(@, H.frames[f])]

\* data[row, col] = value: the column is taken out, written and put back
pl_setitem(H, g, row, col, v) == WriteCopyOnWrite(H, g, row, col, v)

RECURSIVE pl_patch_loop(_, _, _)
\* for cell_patch in patches: data[row, col] = cell_patch["value"]
pl_patch_loop(H, g, patches) ==
    IF patches = <<>> THEN H
    ELSE LET p == Head(patches) IN
         pl_patch_loop(pl_setitem(H, g, p.row_index, p.column_index, p.value),
                       g, Tail(patches))

\* apply_frame_patches for a polars frame; the result is the newest frame
apply_frame_patches_pl(H, f, patches) ==
    pl_patch_loop(pl_clone(H, f), Len(H.frames) + 1, patches)

\* apply_frame_patches (singledispatch on the frame's type)
apply_frame_patches(H, f, patches) ==
    IF H.frames[f].variant = "pandas"
    THEN apply_frame_patches_pd(H, f, patches)
    ELSE apply_frame_patches_pl(H, f, patches)

\* copy_frame: data.copy() (deep: new buffers) for pandas, data.clone() for
\* polars; the result is the newest frame
copy_frame(H, f) ==
    IF H.frames[f].variant = "pandas"
    THEN LET n == Len(H.bufs)
             k == Len(H.frames[f].cols)
         IN  [H EXCEPT
                !.bufs = @ \o [c \in 1..k |-> H.bufs[H.frames[f].cols[c]]],
                !.frames = Append(@, [H.frames[f] EXCEPT
                                        !.cols = [c \in 1..k |-> n + c]])]
    ELSE pl_clone(H, f)

\* A column selector is <<"name", n, 0>> (a str) or <<"pos", "", i>> (an
\* int); a rows or cols argument is <<"all">> (None) or <<"list", seq>>.
IsStr(sel) == sel[1] = "name"

\* get_indexer_for([col])[0] taking the last column of that name
pd_get_indexer_last(names, col) ==
    IF \E i \in DOMAIN names : names[i] = col
    THEN (CHOOSE i \in DOMAIN names :
              names[i] = col /\ \A j \in DOMAIN names : names[j] = col => j <= i) - 1
    ELSE -1

\* data.columns.get_indexer_for([col])[0]: the position of the first column
\* called col, -1 when there is none
pd_get_indexer_first(names, col) ==
    IF \E i \in DOMAIN names : names[i] = col
    THEN (CHOOSE i \in DOMAIN names :
              names[i] = col /\ \A j \in DOMAIN names : names[j] = col => i <= j) - 1
    ELSE -1

\* indx_cols of the pandas subset_frame (slice(None) is every position)
pd_indx_cols(H, f, cols) ==
    IF cols[1] = "all"
    THEN [j \in 1..Len(H.frames[f].cols) |-> j - 1]
    ELSE [j \in 1..Len(cols[2]) |->
             IF IsStr(cols[2][j])
             THEN pd_get_indexer_first(H.frames[f].names, cols[2][j][2])
             ELSE cols[2][j][3]]

\* indx_rows of subset_frame
indx_rows(H, f, rows) ==
    IF rows[1] = "all"
    THEN [i \in 1..H.frames[f].nrows |-> i - 1]
    ELSE rows[2]

\* positional indexing: i in -n..n-1 is in bounds, a negative i counts from
\* the end
InBounds(i, n) == -n <= i /\ i < n
Position(i, n) == IF i < 0 THEN i + n ELSE i

\* frame f restricted to the row positions ir and the column positions ic,
\* on buffers of its own; it is the newest frame
Take(H, f, ir, ic) ==
    LET fr == H.frames[f]
        k == Len(fr.cols)
        at(j) == Position(ic[j], k) + 1
        column(j) == [i \in 1..Len(ir) |->
                         H.bufs[fr.cols[at(j)]][Position(ir[i], fr.nrows) + 1]]
    IN  [H EXCEPT
           !.bufs = @ \o [j \in 1..Len(ic) |-> column(j)],
           !.frames = Append(@,
               [variant |-> fr.variant,
                names |-> [j \in 1..Len(ic) |-> fr.names[at(j)]],
                dtypes |-> [j \in 1..Len(ic) |-> fr.dtypes[at(j)]],
                cols |-> [j \in 1..Len(ic) |-> Len(H.bufs) + j],
                nrows |-> Len(ir)])]

\* data.iloc[indx_rows, indx_cols]
pd_iloc(H, f, ir, ic) ==
    IF /\ \A i \in DOMAIN ir : InBounds(ir[i], H.frames[f].nrows)
       /\ \A j \in DOMAIN ic : InBounds(ic[j], Len(H.frames[f].cols))
    THEN [status |-> "ok", heap |-> Take(H, f, ir, ic)]
    ELSE [status |-> "IndexError", heap |-> H]

\* subset_frame for a pandas frame
subset_frame_pd(H, f, rows, cols) ==
    pd_iloc(H, f, indx_rows(H, f, rows), pd_indx_cols(H, f, cols))

\* data[indx_rows, indx_cols] for a polars frame and column names ns
pl_getitem(H, f, ir, ns) ==
    LET names == H.frames[f].names IN
    IF \E j \in DOMAIN ns : \A c \in DOMAIN names : names[c] # ns[j]
    THEN [status |-> "ColumnNotFoundError", heap |-> H]
    ELSE IF \E i \in DOMAIN ir : ~InBounds(ir[i], H.frames[f].nrows)
    THEN [status |-> "IndexError", heap |-> H]
    ELSE [status |-> "ok",
          heap |-> Take(H, f, ir,
                        [j \in DOMAIN ns |->
                            (CHOOSE c \in DOMAIN names : names[c] = ns[j]) - 1])]

\* subset_frame for a polars frame: an int selector becomes
\* data.columns[col], which raises IndexError out of range
subset_frame_pl(H, f, rows, cols) ==
    LET names == H.frames[f].names
        k == Len(names)
        sels == IF cols[1] = "all" THEN <<>> ELSE cols[2]
        ns == IF cols[1] = "all" THEN names
              ELSE [j \in DOMAIN sels |->
                       IF IsStr(sels[j]) THEN sels[j][2]
                       ELSE names[Position(sels[j][3], k) + 1]]
    IN  IF \E j \in DOMAIN sels : ~IsStr(sels[j]) /\ ~InBounds(sels[j][3], k)
        THEN [status |-> "IndexError", heap |-> H]
        ELSE pl_getitem(H, f, indx_rows(H, f, rows), ns)

\* subset_frame (singledispatch on the frame's type)
subset_frame(H, f, rows, cols) ==
    IF H.frames[f].variant = "pandas"
    THEN subset_frame_pd(H, f, rows, cols)
    ELSE subset_frame_pl(H, f, rows, cols)

\* _html.col_contains_shiny_html: some cell is an HTML-capable object
col_contains_shiny_html(cells) == \E i \in DOMAIN cells : cells[i][1] = "html"

\* serialize_dtype looking for HTML content before it looks at the dtype
serialize_dtype_pl_html_first(dt, cells) ==
    IF col_contains_shiny_html(cells) THEN <<"html">>
    ELSE IF dt[1] = "String" THEN <<"string">>
    ELSE IF dt[1] = "Numeric" THEN <<"numeric">>
    ELSE IF dt[1] = "Categorical" THEN <<"categorical", dt[2]>>
    ELSE <<"unknown">>

\* serialize_dtype for a polars column of dtype dt (<<"String">>,
\* <<"Numeric">>, <<"Categorical", categories>> or <<"Other">>): the type
\* hint, <<type>> or <<"categorical", categories>>
serialize_dtype_pl(dt, cells) ==
    IF dt[1] = "String"
    THEN IF col_contains_shiny_html(cells) THEN <<"html">> ELSE <<"string">>
    ELSE IF dt[1] = "Numeric" THEN <<"numeric">>
    ELSE IF dt[1] = "Categorical" THEN <<"categorical", dt[2]>>
    ELSE IF col_contains_shiny_html(cells) THEN <<"html">> ELSE <<"unknown">>

\* session.require_active_session(None): the session, or RuntimeError
require_active_session(sess) == IF sess THEN "ok" ELSE "RuntimeError"

\* _html.wrap_shiny_html(x, session=session): the rendered form of a cell
wrap_shiny_html(cell) == <<"rendered", cell[2]>>

\* json.loads(json.dumps(x, default=str)) on one cell: what JSON cannot
\* represent becomes its str()
json_default_str(cell) ==
    IF cell[1] \in {"num", "str", "null", "rendered"} THEN cell
    ELSE <<"str", cell[2]>>

\* the type hints of frame f, last column first
type_hints_pl_reversed(H, f) ==
    LET k == Len(H.frames[f].cols) IN
    [c \in 1..k |->
        serialize_dtype_pl(H.frames[f].dtypes[k + 1 - c],
                           H.bufs[H.frames[f].cols[k + 1 - c]])]

\* the type hints of frame f, column by column
type_hints_pl(H, f) ==
    [c \in 1..Len(H.frames[f].cols) |->
        serialize_dtype_pl(H.frames[f].dtypes[c], H.bufs[H.frames[f].cols[c]])]

\* serialize_frame looking the session up before it knows of html columns
serialize_frame_pl_eager_session(H, f, sess) ==
    LET fr == H.frames[f]
        type_hints == type_hints_pl(H, f)
        is_html(c) == type_hints[c][1] = "html"
        data_by_row == [r \in 1..fr.nrows |-> [c \in 1..Len(fr.cols) |->
                          IF is_html(c) THEN wrap_shiny_html(H.bufs[fr.cols[c]][r])
                          ELSE H.bufs[fr.cols[c]][r]]]
    IN  IF require_active_session(sess) # "ok"
        THEN [status |-> "RuntimeError", json |-> <<>>, lookups |-> 1]
        ELSE [status |-> "ok", lookups |-> 1,
              json |-> <<[columns |-> fr.names,
                          data |-> [r \in 1..fr.nrows |-> [c \in 1..Len(fr.cols) |->
                                      json_default_str(data_by_row[r][c])]],
                          typeHints |-> type_hints]>>]

\* serialize_frame for a polars frame, sess: whether a session is active.
\* status, the Frame JSON (if any) and the number of session lookups
serialize_frame_pl(H, f, sess) ==
    LET fr == H.frames[f]
        type_hints == type_hints_pl(H, f)
        is_html(c) == type_hints[c][1] = "html"
        any_html == \E c \in DOMAIN type_hints : is_html(c)
        data_by_row == [r \in 1..fr.nrows |-> [c \in 1..Len(fr.cols) |->
                          IF is_html(c) THEN wrap_shiny_html(H.bufs[fr.cols[c]][r])
                          ELSE H.bufs[fr.cols[c]][r]]]
    IN  IF any_html /\ require_active_session(sess) # "ok"
        THEN [status |-> "RuntimeError", json |-> <<>>, lookups |-> 1]
        ELSE [status |-> "ok", lookups |-> IF any_html THEN 1 ELSE 0,
              json |-> <<[columns |-> fr.names,
                          data |-> [r \in 1..fr.nrows |-> [c \in 1..Len(fr.cols) |->
                                      json_default_str(data_by_row[r][c])]],
                          typeHints |-> type_hints]>>]

\* ------------------------------------------------------------------ frames to work on
ColumnNames == <<"a", "b", "c", "d", "e">>
Text(r, c) == "r" \o ToString(r) \o "c" \o ToString(c)

\* a frame of MaxRows rows and MaxCols str columns in which every cell
\* differs; dup: the second column has the name of the first (pandas only)
GridFrame(variant, dup) ==
    [variant |-> variant,
     names |-> [c \in 1..MaxCols |->
                  IF dup /\ c = 2 THEN ColumnNames[1] ELSE ColumnNames[c]],
     dtypes |-> [c \in 1..MaxCols |-> <<"String">>],
     cols |-> [c \in 1..MaxCols |-> c],
     nrows |-> MaxRows]
GridBufs == [c \in 1..MaxCols |-> [r \in 1..MaxRows |-> <<"str", Text(r - 1, c - 1)>>]]
GridFrames ==
    {GridFrame("pandas", FALSE), GridFrame("pandas", TRUE),
     GridFrame("polars", FALSE)}

\* polars columns of every dtype serialize_dtype tells apart, each with and
\* without an HTML-capable cell (in the first row), and with objects JSON
\* cannot represent
TypedColumns ==
    {[dtype |-> <<"Numeric">>,
      cells |-> [r \in 1..MaxRows |-> <<"num", ToString(r)>>]],
     [dtype |-> <<"String">>,
      cells |-> [r \in 1..MaxRows |-> <<"str", "s">>]],
     [dtype |-> <<"String">>,
      cells |-> [r \in 1..MaxRows |->
                   IF r = 1 THEN <<"html", "<b>">> ELSE <<"str", "s">>]],
     [dtype |-> <<"Categorical", <<"t", "s">>>>,
      cells |-> [r \in 1..MaxRows |-> <<"str", "t">>]],
     [dtype |-> <<"Numeric">>,
      cells |-> [r \in 1..MaxRows |->
                   IF r = 1 THEN <<"html", "<u>">> ELSE <<"num", ToString(r)>>]],
     [dtype |-> <<"Categorical", <<"t", "s">>>>,
      cells |-> [r \in 1..MaxRows |->
                   IF r = 1 THEN <<"html", "<p>">> ELSE <<"str", "t">>]],
     [dtype |-> <<"Other">>,
      cells |-> [r \in 1..MaxRows |-> <<"obj", "2024-01-01">>]],
     [dtype |-> <<"Other">>,
      cells |-> [r \in 1..MaxRows |->
                   IF r = 1 THEN <<"html", "<i>">> ELSE <<"obj", "2024-01-01">>]]}

\* what a client may send as a cell patch for frame f
PatchVals == {<<"str", "a">>, <<"str", "b">>}
Patches(f) ==
    [row_index : 0..(frames[f].nrows - 1),
     column_index : 0..(Len(frames[f].cols) - 1),
     value : PatchVals]

\* the sequences over S of length lo..hi
Seqs(S, lo, hi) == UNION {[1..k -> S] : k \in lo..hi}

\* rows arguments: None, or row positions, one of them past the end
RowsArgs(f) ==
    {<<"all">>} \cup {<<"list", q>> : q \in Seqs(0..frames[f].nrows, 1, MaxSel)}

\* column selectors: positions (one past the end) and names (one absent)
Selectors(f) ==
    {<<"pos", "", i>> : i \in 0..Len(frames[f].cols)}
    \cup {<<"name", frames[f].names[c], 0>> : c \in DOMAIN frames[f].names}
    \cup {<<"name", "zz", 0>>}

\* the column a selector stands for (0: none), for telling repeats
Stands(f, sel) ==
    IF IsStr(sel) THEN pd_get_indexer_first(frames[f].names, sel[2]) + 1
    ELSE IF sel[3] < Len(frames[f].cols) THEN sel[3] + 1 ELSE 0

\* cols arguments: None, or selectors of different columns
ColsArgs(f) ==
    {<<"all">>} \cup
    {<<"list", q>> : q \in {q \in Seqs(Selectors(f), 1, MaxSel) :
        \A i, j \in DOMAIN q : i # j => Stands(f, q[i]) # Stands(f, q[j])}}

InitFrame ==
    /\ ExpressInit
    /\ patches_left = MaxPatches
    /\ out = NoCall
    /\ \/ /\ fixture = "grid"
          /\ session = FALSE
          /\ bufs = GridBufs
          /\ frames \in {<<g>> : g \in GridFrames}
          /\ born = <<GridBufs>>
       \/ /\ fixture = "typed"
          /\ session \in BOOLEAN
          /\ \E k \in 1..MaxCols : \E tc \in [1..k -> TypedColumns] :
               /\ bufs = [c \in 1..k |-> tc[c].cells]
               /\ frames = <<[variant |-> "polars",
                              names |-> [c \in 1..k |-> ColumnNames[c]],
                              dtypes |-> [c \in 1..k |-> tc[c].dtype],
                              cols |-> [c \in 1..k |-> c],
                              nrows |-> MaxRows]>>
               /\ born = <<[c \in 1..k |-> tc[c].cells]>>

Cost(patches) == IF patches = <<>> THEN 1 ELSE Len(patches)

\* apply_frame_patches(frames[f], patches) is called, for a frame f made
\* so far and a batch of patches
ApplyPatches ==
    /\ fixture = "grid"
    /\ out.op \in {"none", "apply_frame_patches"}
    /\ patches_left > 0
    /\ \E f \in DOMAIN frames :
       \E patches \in Seqs(Patches(f), 0, patches_left) :
         /\ LET H == apply_frame_patches(FHeap, f, patches)
                g == Len(H.frames)
            IN  /\ bufs' = H.bufs
                /\ frames' = H.frames
                /\ born' = Append(born, FrameCells(H, g))
                /\ out' = [NoCall EXCEPT !.op = "apply_frame_patches",
                                         !.status = "ok", !.src = f, !.res = g,
                                         !.patches = patches,
                                         !.input = FrameCells(FHeap, f)]
         /\ patches_left' = patches_left - Cost(patches)
    /\ UNCHANGED <<session, fixture>>
    /\ UNCHANGED evars

\* copy_frame(frames[1]) is called
CopyFrame ==
    /\ fixture = "grid"
    /\ out = NoCall
    /\ LET H == copy_frame(FHeap, 1)
           g == Len(H.frames)
       IN  /\ bufs' = H.bufs
           /\ frames' = H.frames
           /\ born' = Append(born, FrameCells(H, g))
           /\ out' = [NoCall EXCEPT !.op = "copy_frame", !.status = "ok",
                                    !.src = 1, !.res = g]
    /\ UNCHANGED <<session, fixture, patches_left>>
    /\ UNCHANGED evars

\* subset_frame(frames[1], rows=rows, cols=cols) is called
Subset ==
    /\ fixture = "grid"
    /\ out = NoCall
    /\ \E rows \in RowsArgs(1), cols \in ColsArgs(1) :
         LET R == subset_frame(FHeap, 1, rows, cols)
             H == R.heap
             g == Len(H.frames)
         IN  /\ bufs' = H.bufs
             /\ frames' = H.frames
             /\ born' = IF R.status = "ok" THEN Append(born, FrameCells(H, g))
                        ELSE born
             /\ out' = [NoCall EXCEPT !.op = "subset_frame",
                                      !.status = R.status, !.src = 1,
                                      !.res = IF R.status = "ok" THEN g ELSE 0,
                                      !.rows = rows, !.cols = cols]
    /\ UNCHANGED <<session, fixture, patches_left>>
    /\ UNCHANGED evars

\* serialize_frame(frames[1]) is called
Serialize ==
    /\ fixture = "typed"
    /\ out = NoCall
    /\ LET R == serialize_frame_pl(FHeap, 1, session)
       IN  out' = [NoCall EXCEPT !.op = "serialize_frame", !.status = R.status,
                                 !.src = 1, !.json = R.json,
                                 !.input = FrameCells(FHeap, 1),
                                 !.lookups = R.lookups]
    /\ UNCHANGED <<bufs, frames, born, session, fixture, patches_left>>
    /\ UNCHANGED evars

NextFrame ==
    \/ ApplyPatches
    \/ CopyFrame
    \/ Subset
    \/ Serialize

SpecFrame == InitFrame /\ [][NextFrame]_vars

\* ------------------------------------------------------------------ properties
\* the classification rule of append_arg, on one non-null value
Converted(v) ==
    IF v[1] = "Tag" THEN v
    ELSE IF v[1] = "ReprHtml" THEN <<"Tag", <<"HTML", v[2]>>>>
    ELSE <<"Tag", <<"pre", v[2]>>>>
RECURSIVE ConvertedAll(_)
\* the non-null values of vs, in order, each converted
ConvertedAll(vs) ==
    IF vs = <<>> THEN <<>>
    ELSE (IF Head(vs) = NoneVal THEN <<>> ELSE <<Converted(Head(vs))>>)
         \o ConvertedAll(Tail(vs))

\* C1: when run_express returns after a script of expression statements and
\* statements that display nothing, the page function was called once, it is
\* the default page function, its positional arguments are the non-null
\* expression values in source order, each converted by the append_arg rule
\* (none when there was no expression), it got no keyword arguments, and
\* run_express returned what it returned.
C1_PageArgsAreShownValues ==
    (exec[1].pc = "returned" /\ exec[1].plain) =>
        /\ Len(calls) = 1
        /\ calls[1].fn = DEFAULT_PAGE_FUNCTION
        /\ calls[1].args = ConvertedAll(exec[1].shown)
        /\ calls[1].kwargs = <<>>
        /\ exec[1].ret = Call(DEFAULT_PAGE_FUNCTION, calls[1].args, <<>>)
        /\ (exec[1].shown = <<>> =>
               exec[1].ret = Call(DEFAULT_PAGE_FUNCTION, <<>>, <<>>))

\* a script showing a null and two different non-null values has returned
C1_Witness ==
    /\ exec[1].pc = "returned" /\ exec[1].plain
    /\ Len(exec[1].shown) = 3
    /\ exec[1].shown[2] = NoneVal
    /\ exec[1].shown[1] = <<"Other", <<"5">>>>
    /\ exec[1].shown[3] = <<"ReprHtml", <<"df">>>>
    /\ Len(calls[1].args) = 2

\* the other contexts' arguments and every ui_result are as before the step
NothingShown(but_ctxs, but_uis) ==
    /\ \A i \in DOMAIN ctxs : i \in but_ctxs \/ ctxs'[i].args = ctxs[i].args
    /\ \A e \in Execs : e \in but_uis \/ ui'[e] = ui[e]

\* the value res went to hook h, and nowhere else
ShownTo(h, res) ==
    IF h[1] = "append_arg"
    THEN /\ ctxs'[h[2]].args = Append(ctxs[h[2]].args, res)
         /\ NothingShown({h[2]}, {})
    ELSE IF h[1] = "set_result"
    THEN /\ ui'[h[2]] = res
         /\ NothingShown({}, {h[2]})
    ELSE NothingShown({}, {})

\* C2: __exit__ of a capturing context.  Without an exception the wrapped
\* function is called exactly once with the accumulated arguments and what
\* it returns goes to the hook that __enter__ saved, which is installed
\* again (for a with-block inside another context: appended to that
\* context's arguments); with an exception no function is called and no hook
\* receives anything.  The exception is never handled: it ends run_express,
\* and so does an error of the wrapped function.
C2_ExitContract ==
    [][LET st == exec[1].stack
           last == exec'[1].last
           c == IF last \in {"end", "end_fn_raised"} THEN top ELSE st[Len(st)]
           me == ctxs[c]
           call == [ctx |-> c, fn |-> me.fn, args |-> me.args,
                    kwargs |-> me.kwargs, raised |-> FALSE]
       IN  /\ last \in {"exit", "end"} =>
                 /\ calls' = Append(calls, call)
                 /\ hook' = me.prev
                 /\ ShownTo(me.prev, Call(me.fn, me.args, me.kwargs))
                 /\ ctxs'[c].state = "Exited"
                 /\ exec'[1].pc = IF last = "end" THEN "returned" ELSE "running"
           /\ last \in {"exit_fn_raised", "end_fn_raised"} =>
                 /\ calls' = Append(calls, [call EXCEPT !.raised = TRUE])
                 /\ NothingShown({}, {})
                 /\ exec'[1].pc = "raised"
           /\ last = "raise" =>
                 /\ calls' = calls
                 /\ NothingShown({}, {})
                 /\ exec'[1].pc = "raised"
                 /\ \A i \in 1..Len(st) : ctxs'[st[i]].state = "Exited"
      ]_vars

\* a with-block inside another with-block has ended and its result is the
\* last argument of the enclosing context
C2_Witness ==
    /\ exec[1].last = "exit"
    /\ Len(exec[1].stack) = 1
    /\ LET outer == ctxs[exec[1].stack[1]]
       IN  /\ Len(outer.args) = 2
           /\ outer.args[2][2][1] = "card"
           /\ Len(outer.args[2][2][2]) = 2

\* C3: whenever run_express is over, by returning or by an exception, the
\* hook installed is not the append_arg of any context: it is the hook that
\* was installed when the top-level context was entered (set_result).
C3_HookRestoredOnEveryExit ==
    \A e \in Execs :
        exec[e].pc \in {"returned", "raised"} => hook = SetResult(e)

\* C4: when the first statement of an execution is about to run, the slot
\* holds a context that wraps the default page function and has no
\* arguments, the flag is false, var_context holds the seeded names only and
\* the hook is that context's append_arg, whatever happened before.
C4_FreshStart ==
    exec[1].last = "start" =>
        /\ top \in DOMAIN ctxs
        /\ ctxs[top].fn = DEFAULT_PAGE_FUNCTION
        /\ ctxs[top].args = <<>>
        /\ ctxs[top].kwargs = <<>>
        /\ ctxs[top].default_page = 0
        /\ ctxs[top].prev = SetResult(1)
        /\ replaced = FALSE
        /\ exec[1].var_context = SeedNames
        /\ exec[1].stack = <<>>
        /\ hook = AppendArgOf(top)
        /\ ui[1] = EmptyTagList

\* an execution starts after one that replaced the top-level context and
\* then ended with an exception
C4_Witness == exec[1].last = "start" /\ exec[1].prior = "raised_replaced"

\* C5: interleaved executions do not share the slot or the hook: while an
\* execution runs, the slot holds a context of its own and the hook is its
\* own, and the page of an execution that returns is built from the values
\* its own script showed.
C5_ExecutionsIsolated ==
    \A e \in Execs :
        /\ (Running(e) /\ exec[e].plain) =>
               /\ ctxs[top].owner = e
               /\ hook = AppendArgOf(top)
        /\ (exec[e].pc = "returned" /\ exec[e].plain) =>
               exec[e].page_call[1].args = ConvertedAll(exec[e].shown)

\* C6: the first call of replace_top_level_recall_context_manager in an
\* execution takes effect (the slot holds the candidate, whose arguments are
\* the old context's followed by its own; the flag is true); a later call
\* without force changes nothing, returns the context in the slot and never
\* enters its candidate; a call with force always takes effect.
C6_ReplaceOnceUnlessForced ==
    [][exec'[1].last = "replace" =>
         LET cm == exec'[1].cm
             a == exec'[1].cm_args
             kw == exec'[1].cm_kwargs
         IN  /\ exec'[1].replace_ret = top
             /\ IF exec[1].nreplace = 0 \/ exec'[1].force
                THEN /\ top' = cm
                     /\ replaced'
                     /\ ctxs'[cm].args = ctxs[top].args \o a
                     /\ ctxs'[cm].state = "Capturing"
                ELSE /\ top' = top
                     /\ replaced' = replaced
                     /\ hook' = hook
                     /\ ctxs'[cm].args = a
                     /\ ctxs'[cm].kwargs = kw
                     /\ ctxs'[cm].state = "Idle"
                     /\ \A i \in DOMAIN ctxs : ctxs'[i] = ctxs[i]
      ]_vars

\* after an expression, a first and a second unforced call: the slot still
\* holds the first candidate, with the shown value before its own argument
C6_Witness ==
    /\ exec[1].last = "replace"
    /\ exec[1].nreplace = 2
    /\ ~exec[1].force
    /\ top # exec[1].cm
    /\ ctxs[exec[1].cm].state = "Idle"
    /\ ctxs[exec[1].cm].args = <<TagB>>
    /\ ctxs[top].args = <<TagA>>
    /\ ctxs[top].kwargs = <<<<"title", "y">>, <<"lang", "en">>>>

\* the value the batch patches leaves at (row, col) of a frame whose cells
\* were cells: that of the last patch on (row, col), else the frame's own
Patched(cells, patches, row, col) ==
    LET hits == {i \in DOMAIN patches :
                    patches[i].row_index = row /\ patches[i].column_index = col}
    IN  IF hits = {} THEN cells[col + 1][row + 1]
        ELSE patches[CHOOSE i \in hits : \A j \in hits : j <= i].value

\* C7: apply_frame_patches returns a frame of the same variant, shape and
\* column names in which a cell holds the value of the last patch of the
\* batch that targets it and the input's value when none does; with an
\* empty batch its cells are those of copy_frame(frame).
C7_PatchesInOrderLastWins ==
    out.op = "apply_frame_patches" =>
        LET src == frames[out.src]
            res == frames[out.res]
        IN  /\ res.variant = src.variant
            /\ frame_shape(FHeap, out.res) = frame_shape(FHeap, out.src)
            /\ frame_column_names(FHeap, out.res) = frame_column_names(FHeap, out.src)
            /\ \A r \in 0..(src.nrows - 1), c \in 0..(Len(src.cols) - 1) :
                   get_frame_cell(FHeap, out.res, r, c)
                       = Patched(out.input, out.patches, r, c)
            /\ out.patches = <<>> =>
                   FrameCells(FHeap, out.res)
                       = FrameCells(copy_frame(FHeap, out.src), Len(frames) + 1)

\* "a" then "b" were written to cell (0, 0) of the 3 x 2 frame: it holds
\* "b" and the cell next to it is the input's
C7_Witness ==
    /\ out.op = "apply_frame_patches"
    /\ out.patches = <<[row_index |-> 0, column_index |-> 0, value |-> <<"str", "a">>],
                       [row_index |-> 0, column_index |-> 0, value |-> <<"str", "b">>]>>
    /\ get_frame_cell(FHeap, out.res, 0, 0) = <<"str", "b">>
    /\ get_frame_cell(FHeap, out.res, 0, 1) = <<"str", "r0c1">>

\* C8: no call of apply_frame_patches changes a cell of the frame it is
\* given, or of any frame made before: every frame, of either variant, holds
\* the cells it held when it was made, also after frames derived from it
\* were patched.
C8_InputNeverMutated ==
    \A f \in DOMAIN frames : FrameCells(FHeap, f) = born[f]

\* a frame was patched, and the frame that gave was patched again in the
\* same column: three frames that differ in that column
C8_Witness ==
    /\ out.op = "apply_frame_patches"
    /\ Len(frames) = 3
    /\ out.src = 2
    /\ frames[1].variant = "pandas"
    /\ get_frame_cell(FHeap, 1, 0, 0) = <<"str", "r0c0">>
    /\ get_frame_cell(FHeap, 2, 0, 0) = <<"str", "a">>
    /\ get_frame_cell(FHeap, 3, 0, 0) = <<"str", "a">>
    /\ get_frame_cell(FHeap, 2, 1, 0) = <<"str", "r1c0">>
    /\ get_frame_cell(FHeap, 3, 1, 0) = <<"str", "b">>

\* C9: subset_frame, when every name among the column selectors is the name
\* of a column: None selects the whole axis, a name stands for the first
\* column of that name, cell (i, j) of the result is the frame's cell at
\* (rows[i], position of cols[j]), the variant is kept; a row or column
\* position past the end fails with IndexError.
C9_SubsetSelects ==
    out.op = "subset_frame" =>
        LET src == frames[out.src]
            n == src.nrows
            k == Len(src.cols)
            ir == IF out.rows[1] = "all" THEN [i \in 1..n |-> i - 1]
                  ELSE out.rows[2]
            sels == IF out.cols[1] = "all" THEN [j \in 1..k |-> <<"pos", "", j - 1>>]
                    ELSE out.cols[2]
            named(sel) == \E c \in 1..k : src.names[c] = sel[2]
            first(sel) == CHOOSE c \in 1..k :
                              src.names[c] = sel[2]
                              /\ \A d \in 1..(c - 1) : src.names[d] # sel[2]
            pos(sel) == IF IsStr(sel) THEN first(sel) - 1 ELSE sel[3]
            past_end == \/ \E i \in DOMAIN ir : ir[i] >= n
                        \/ \E j \in DOMAIN sels : ~IsStr(sels[j]) /\ sels[j][3] >= k
        IN  (\A j \in DOMAIN sels : IsStr(sels[j]) => named(sels[j])) =>
               IF past_end THEN out.status = "IndexError" /\ out.res = 0
               ELSE /\ out.status = "ok"
                    /\ frames[out.res].variant = src.variant
                    /\ frame_shape(FHeap, out.res) = <<Len(ir), Len(sels)>>
                    /\ \A i \in DOMAIN ir, j \in DOMAIN sels :
                           get_frame_cell(FHeap, out.res, i - 1, j - 1)
                               = get_frame_cell(FHeap, out.src, ir[i], pos(sels[j]))

\* rows=[1], cols=["b"] on the 3-row frame with columns a, b: a 1 x 1 frame
\* holding the frame's cell (1, 1)
C9_Witness ==
    /\ out.op = "subset_frame"
    /\ frames[1].names = <<"a", "b">>
    /\ frames[1].nrows = 3
    /\ out.rows = <<"list", <<1>>>>
    /\ out.cols = <<"list", <<<<"name", "b", 0>>>>>>
    /\ out.status = "ok"
    /\ frame_shape(FHeap, out.res) = <<1, 1>>
    /\ get_frame_cell(FHeap, out.res, 0, 0) = get_frame_cell(FHeap, 1, 1, 1)
    /\ get_frame_cell(FHeap, out.res, 0, 0) = <<"str", "r1c1">>

\* C10: serialize_frame (polars) looks a session up exactly when a column is
\* classified html.  With no html column it succeeds, with or without a
\* session, and looks none up; with an html column and no session it fails
\* with RuntimeError and returns nothing; with a session every cell of an
\* html column is its rendered form, and the cells of the other columns are
\* not rendered: a JSON value is the cell itself, any other object its str().
C10_SessionOnlyForHtml ==
    out.op = "serialize_frame" =>
        LET fr == frames[out.src]
            k == Len(fr.cols)
            html(c) == serialize_dtype_pl(fr.dtypes[c], out.input[c])[1] = "html"
            any_html == \E c \in 1..k : html(c)
        IN  /\ out.lookups = (IF any_html THEN 1 ELSE 0)
            /\ (any_html /\ ~session) =>
                   out.status = "RuntimeError" /\ out.json = <<>>
            /\ (~any_html \/ session) =>
                   /\ out.status = "ok"
                   /\ Len(out.json) = 1
                   /\ \A r \in 1..fr.nrows, c \in 1..k :
                        LET cell == out.input[c][r]
                            got == out.json[1].data[r][c]
                        IN  IF html(c) THEN got = <<"rendered", cell[2]>>
                            ELSE /\ got[1] # "rendered"
                                 /\ cell[1] \in {"num", "str", "null"} => got = cell
                                 /\ cell[1] = "obj" => got = <<"str", cell[2]>>

\* a numeric column and a text column with one HTML fragment were
\* serialized with a session: the fragment is rendered, the numbers are kept
C10_Witness ==
    /\ out.op = "serialize_frame"
    /\ session
    /\ out.status = "ok"
    /\ out.lookups = 1
    /\ out.json[1].typeHints = <<<<"numeric">>, <<"html">>>>
    /\ out.json[1].data[1] = <<<<"num", "1">>, <<"rendered", "<b>">>>>

\* a frame with an html column was serialized without a session
C10_WitnessNoSession ==
    /\ out.op = "serialize_frame"
    /\ ~session
    /\ out.status = "RuntimeError"

\* C11: every Frame JSON serialize_frame returns has as many type hints as
\* columns, every row of data has as many cells as there are columns, there
\* is one row per row of the frame, columns are the frame's column names and
\* typeHints[i] is the dtype descriptor of the column named columns[i].
C11_FrameJsonShape ==
    (out.op = "serialize_frame" /\ out.json # <<>>) =>
        LET j == out.json[1]
            fr == frames[out.src]
        IN  /\ Len(j.columns) = Len(j.typeHints)
            /\ Len(j.data) = fr.nrows
            /\ \A r \in DOMAIN j.data : Len(j.data[r]) = Len(j.columns)
            /\ j.columns = frame_column_names(FHeap, out.src)
            /\ \A i \in DOMAIN j.columns :
                   j.typeHints[i] = serialize_dtype_pl(fr.dtypes[i], out.input[i])

\* a frame of a numeric and a categorical column was serialized
C11_Witness ==
    /\ out.op = "serialize_frame"
    /\ out.status = "ok"
    /\ out.json[1].columns = <<"a", "b">>
    /\ out.json[1].typeHints = <<<<"numeric">>, <<"categorical", <<"t", "s">>>>>>
    /\ Len(out.json[1].data) = MaxRows
    /\ Len(out.json[1].data[1]) = 2

\* C12: wrap_express_app and the handler it builds.  Every call of the
\* handler starts a new execution of run_express; when that execution
\* raises, the handler prints the traceback of the exception and raises that
\* same exception; whatever the handler's executions do, the App keeps the
\* UI the initial run returned; and when neither a file nor the variable is
\* given, wrap_express_app raises and no script statement ever runs.
C12_HandlerReraisesAndKeepsUI ==
    [][/\ app'.requests = app.requests + 1 =>
            /\ app.state = "built"
            /\ exec'[1].pc = "running" /\ exec'[1].last = "start"
            /\ ctxs'[top'].args = <<>> /\ ctxs'[top'].state = "Capturing"
            /\ hook' = AppendArgOf(top')
            /\ ui'[1] = EmptyTagList
       /\ (app.handler = "running" /\ exec[1].pc = "raised" /\ app' # app) =>
            /\ app'.handler = "raised"
            /\ app'.raised = ExcOf(1)
            /\ app'.log = Append(app.log, ExcOf(1))
       /\ (app.handler = "running" /\ exec[1].pc = "returned" /\ app' # app) =>
            /\ app'.handler = "returned"
            /\ app'.log = app.log
       /\ (app.state = "initial" /\ app'.state = "built") =>
            app'.ui = exec[1].ret /\ exec[1].pc = "returned"
       /\ app.state = "built" => (app'.state = "built" /\ app'.ui = app.ui)
       /\ app'.state = "config_error" =>
            /\ app'.raised = "ValueError"
            /\ exec'[1] = IdleExec
            /\ ctxs' = <<>> /\ calls' = <<>> /\ hook' = OrigHook
      ]_vars

\* the initial run showed a tag and returned its page; a session's run then
\* showed another tag and raised: the exception left the handler, its
\* traceback was printed once, and the App's UI is the initial page
C12_Witness ==
    /\ app.state = "built"
    /\ app.requests = 1
    /\ app.handler = "raised"
    /\ app.raised = "script_error"
    /\ app.log = <<"script_error">>
    /\ app.ui = Call(DEFAULT_PAGE_FUNCTION, <<TagA>>, <<>>)
    /\ ctxs[top].args = <<TagB>>
    /\ ui[1] = EmptyTagList

\* wrap_express_app was called without a file and without the variable
C12_WitnessNoFile == app.state = "config_error" /\ ctxs = <<>>

\* the contexts whose __exit__ the step calls: those that leave the stack of
\* with-blocks, the top-level context when run_express ends, and the context
\* a replacement puts out of the slot
Exiting(c) ==
    LET st == exec[1].stack
        st2 == exec'[1].stack
        last == exec'[1].last
    IN  \/ /\ last \in {"exit", "exit_fn_raised", "raise"}
           /\ \E i \in DOMAIN st : st[i] = c
           /\ ~\E i \in DOMAIN st2 : st2[i] = c
        \/ last \in {"end", "end_fn_raised"} /\ c = top
        \/ last \in {"replace", "enter"} /\ c = top /\ top' # top

\* C13: __exit__ restores the hook saved at __enter__ before anything else.
\* Every context whose __exit__ a step calls (with or without an exception,
\* also when its wrapped function raises) is Exited afterwards, and the hook
\* installed once its __exit__ had begun is the hook that was installed when
\* __enter__ installed the context's own; this holds of every exited context.
C13_ExitRestoresSavedHookFirst ==
    [][/\ \A c \in DOMAIN ctxs :
            (exec'[1].last # "start" /\ Exiting(c)) =>
                /\ ctxs[c].state = "Capturing"
                /\ ctxs'[c].state = "Exited"
                /\ ctxs'[c].exit_hook = ctxs[c].before
                /\ ctxs'[c].exit_hook = ctxs[c].prev
       /\ \A c \in DOMAIN ctxs' :
            ctxs'[c].state = "Exited" =>
                /\ ctxs'[c].before # <<"unset", 0>>
                /\ ctxs'[c].exit_hook = ctxs'[c].before
       /\ (exec'[1].last \in {"exit", "end", "end_fn_raised"}
           /\ exec[1].pc = "running") =>
            LET c == IF exec'[1].last = "exit"
                     THEN exec[1].stack[Len(exec[1].stack)] ELSE top
            IN  hook' = ctxs[c].before
      ]_vars

\* the wrapped function of a context with a default page, whose __enter__
\* replaced the top-level context, raised inside __exit__: the hook it had
\* restored by then is the page context's, installed by the replacement
C13_Witness ==
    /\ exec[1].last = "exit_fn_raised"
    /\ \E c \in DOMAIN ctxs :
         /\ ctxs[c].default_page # 0
         /\ ctxs[c].state = "Exited"
         /\ ctxs[c].exit_hook = AppendArgOf(ctxs[c].default_page)
         /\ top = ctxs[c].default_page

\* C14: while the script runs, the hook installed is the append_arg of the
\* innermost context that is entered and not exited (the one entered last
\* among them: contexts are numbered in the order they are entered), and
\* never the append_arg of a context that has been exited.  Stated of
\* executions whose script only enters and leaves with-blocks (it makes no
\* call of replace_top_level_recall_context_manager of its own).
C14_HookIsInnermostActive ==
    (Running(1) /\ exec[1].cm = 0) =>
        /\ hook[1] = "append_arg"
        /\ ctxs[hook[2]].state = "Capturing"
        /\ \A c \in DOMAIN ctxs : ctxs[c].state = "Capturing" => c <= hook[2]

\* a dict given as its items: its keys, and the value of a key
Keys(d) == {d[i][1] : i \in DOMAIN d}
Lookup(d, k) == d[CHOOSE i \in DOMAIN d : d[i][1] = k][2]

\* C15: when a replacement takes effect, the new context's arguments are
\* the old context's collected arguments followed by its own, its keyword
\* arguments are the old context's with its own added, its own winning where
\* both have the key, and the old context's arguments and keyword arguments
\* are as they were.
C15_ReplaceMergesArguments ==
    [][(exec'[1].last \in {"replace", "enter"} /\ top' # top) =>
         LET old == ctxs[top]
             new == ctxs'[top']
             own_args == IF exec'[1].last = "replace"
                         THEN exec'[1].cm_args ELSE <<>>
             own_kwargs == IF exec'[1].last = "replace"
                           THEN exec'[1].cm_kwargs ELSE <<>>
         IN  /\ new.args = old.args \o own_args
             /\ Keys(new.kwargs) = Keys(old.kwargs) \cup Keys(own_kwargs)
             /\ Len(new.kwargs) = Cardinality(Keys(new.kwargs))
             /\ \A k \in Keys(new.kwargs) :
                    Lookup(new.kwargs, k) =
                        IF k \in Keys(own_kwargs) THEN Lookup(own_kwargs, k)
                        ELSE Lookup(old.kwargs, k)
             /\ ctxs'[top].args = old.args
             /\ ctxs'[top].kwargs = old.kwargs
      ]_vars

\* a page with title "x" that had collected two arguments was replaced, by
\* force, by one built with title "y" and lang "en": the new page has the two
\* arguments, title "y" and lang "en"; the old one still has title "x"
C15_Witness ==
    /\ exec[1].last = "replace"
    /\ exec[1].force
    /\ exec[1].nreplace = 2
    /\ top = exec[1].cm
    /\ exec[1].replace_ret \in DOMAIN ctxs
    /\ ctxs[exec[1].replace_ret].kwargs = <<<<"title", "x">>>>
    /\ ctxs[exec[1].replace_ret].args = <<TagA, TagB>>
    /\ ctxs[top].args = <<TagA, TagB>>
    /\ ctxs[top].kwargs = <<<<"title", "y">>, <<"lang", "en">>>>

\* the context the last step entered in a with statement
Entered == exec[1].stack[Len(exec[1].stack)]

\* C16, as stated: after the __enter__ of a context built with a default
\* page, when the replacement took effect (the default page is capturing),
\* the slot holds the entering context and the hook is its append_arg.
C16_SlotHoldsEnteringContext ==
    (/\ exec[1].last = "enter"
     /\ ctxs[Entered].default_page # 0
     /\ ctxs[ctxs[Entered].default_page].state = "Capturing") =>
        /\ top = Entered
        /\ hook = AppendArgOf(Entered)

\* C16, amended: __enter__ of a context built with a default page asks for
\* the slot to be replaced with that default page, not with the entering
\* context, and does so before it saves the hook.  When the flag was not set
\* the slot then holds the default page, which is capturing and has taken
\* over the old context's arguments, the old context is exited, the hook
\* the entering context saved is the default page's append_arg and the hook
\* installed is the entering context's; when the flag was set the slot and
\* the default page are left alone and the hook saved is the one that was
\* installed before the step.
C16_SlotHoldsDefaultPage ==
    [][(exec'[1].last = "enter" /\ ctxs'[Entered'].default_page # 0) =>
         LET c == Entered'
             pg == ctxs'[c].default_page
         IN  /\ hook' = AppendArgOf(c)
             /\ ctxs'[c].state = "Capturing"
             /\ top' # c
             /\ IF ~replaced
                THEN /\ top' = pg
                     /\ replaced'
                     /\ ctxs'[pg].state = "Capturing"
                     /\ ctxs'[pg].args = ctxs[top].args
                     /\ ctxs'[pg].prev = ctxs[top].prev
                     /\ ctxs'[top].state = "Exited"
                     /\ ctxs'[c].prev = AppendArgOf(pg)
                ELSE /\ top' = top
                     /\ ctxs'[pg].state = "Idle"
                     /\ ctxs'[c].prev = hook
      ]_vars

\* a with-block of a context with a default page was entered after an
\* expression: the slot holds the page, with the expression's value, and the
\* hook is the entering context's
C16_Witness ==
    /\ exec[1].last = "enter"
    /\ ctxs[Entered].default_page # 0
    /\ top = ctxs[Entered].default_page
    /\ ctxs[top].fn = "page_sidebar"
    /\ ctxs[top].args = <<TagA>>
    /\ hook = AppendArgOf(Entered)
    /\ top # Entered

\* C17: an expression statement whose value goes to a context's append_arg
\* appends one element to that context's arguments, or none, and leaves the
\* earlier elements, the keyword arguments, the hook and every other context
\* as they were: a UI fragment is appended as it is, a value with
\* _repr_html_ as the HTML fragment of its rendering, another non-null value
\* as the preformatted text of its repr, and a null changes nothing.  So the
\* arguments of the final page of a script of plain statements are those of
\* its non-null values: a null statement more or less makes no difference.
C17_AppendArgOneOrNone ==
    [][/\ (exec'[1].last = "expr" /\ hook[1] = "append_arg") =>
            LET v == exec'[1].shown[Len(exec'[1].shown)]
                h == hook[2]
                args == ctxs[h].args
                new == ctxs'[h].args
            IN  /\ hook' = hook
                /\ ctxs'[h].kwargs = ctxs[h].kwargs
                /\ \A c \in DOMAIN ctxs : c # h => ctxs'[c] = ctxs[c]
                /\ Len(new) \in {Len(args), Len(args) + 1}
                /\ SubSeq(new, 1, Len(args)) = args
                /\ v[1] = "Tag" => new = Append(args, v)
                /\ v[1] = "ReprHtml" => new = Append(args, <<"Tag", <<"HTML", v[2]>>>>)
                /\ v[1] = "Other" => new = Append(args, <<"Tag", <<"pre", v[2]>>>>)
                /\ v = NoneVal => ctxs' = ctxs
       /\ (exec'[1].pc = "returned" /\ exec'[1].plain) =>
            exec'[1].page_call[1].args =
                ConvertedAll(SelectSeq(exec'[1].shown, LAMBDA v : v # NoneVal))
      ]_vars

\* inside a with-block whose context was built with one argument, a value
\* with _repr_html_ and then a null were shown
C17_Witness ==
    /\ exec[1].last = "expr"
    /\ exec[1].shown = <<<<"ReprHtml", <<"df">>>>, NoneVal>>
    /\ exec[1].stack # <<>>
    /\ hook = AppendArgOf(Entered)
    /\ ctxs[Entered].args = <<TagB, <<"Tag", <<"HTML", <<"df">>>>>>>>

\* C18: the descriptor serialize_frame gives for a column follows the
\* priority of serialize_dtype: a String column is html when a cell holds an
\* HTML-capable object and string otherwise; a numeric column is numeric and
\* a categorical column is categorical with its categories in the order the
\* column has them, also when a cell of it holds an HTML-capable object; any
\* other column is html when a cell holds an HTML-capable object and unknown
\* otherwise.  There is one descriptor per column.
C18_DtypePriority ==
    (out.op = "serialize_frame" /\ out.status = "ok") =>
        LET fr == frames[out.src]
            hints == out.json[1].typeHints
            has_html(c) == \E r \in DOMAIN out.input[c] : out.input[c][r][1] = "html"
        IN  /\ Len(hints) = Len(fr.cols)
            /\ \A c \in DOMAIN hints :
                 LET dt == fr.dtypes[c] IN
                 /\ dt[1] = "String" =>
                        hints[c] = IF has_html(c) THEN <<"html">> ELSE <<"string">>
                 /\ dt[1] = "Numeric" => hints[c] = <<"numeric">>
                 /\ dt[1] = "Categorical" => hints[c] = <<"categorical", dt[2]>>
                 /\ dt[1] = "Other" =>
                        hints[c] = IF has_html(c) THEN <<"html">> ELSE <<"unknown">>

\* a numeric column holding an HTML-capable object, next to a column of
\* another dtype holding one, was serialized: numeric and html
C18_Witness ==
    /\ out.op = "serialize_frame"
    /\ out.status = "ok"
    /\ frames[1].dtypes = <<<<"Numeric">>, <<"Other">>>>
    /\ out.input[1][1] = <<"html", "<u>">>
    /\ out.input[2][1] = <<"html", "<i>">>
    /\ out.json[1].typeHints = <<<<"numeric">>, <<"html">>>>

\* a categorical column holding an HTML-capable object was serialized
C18_WitnessCategorical ==
    /\ out.op = "serialize_frame"
    /\ out.status = "ok"
    /\ frames[1].dtypes = <<<<"Categorical", <<"t", "s">>>>>>
    /\ out.input[1][1] = <<"html", "<p>">>
    /\ out.json[1].typeHints = <<<<"categorical", <<"t", "s">>>>>>

\* the page functions: what the contexts that occupy the slot wrap (scripts
\* build contexts of these functions for the slot only)
PageFns == {DEFAULT_PAGE_FUNCTION, "page_sidebar"}

\* C19: when run_express returns, exactly one page function has been called
\* in the execution: that of the context in the slot when the last statement
\* had run, by the last step, with that context's arguments; the functions
\* of the contexts replaced out of the slot, the default page function among
\* them, were not called; and run_express returns what that call returned.
C19_OnePageCall ==
    [][exec'[1].last = "end" =>
         LET n == Len(calls')
             pg == calls'[n]
         IN  /\ top' = top
             /\ calls' = Append(calls, pg)
             /\ pg.ctx = top
             /\ pg.fn = ctxs[top].fn /\ pg.fn \in PageFns
             /\ pg.args = ctxs[top].args /\ pg.kwargs = ctxs[top].kwargs
             /\ exec'[1].page_call = <<pg>>
             /\ \A i \in 1..(n - 1) : calls'[i].fn \notin PageFns
             /\ \A c \in DOMAIN ctxs' :
                    (c # top /\ ctxs'[c].fn \in PageFns) =>
                        \A i \in 1..n : calls'[i].ctx # c
             /\ exec'[1].pc = "returned"
             /\ exec'[1].ret = Call(pg.fn, pg.args, pg.kwargs)
             /\ ui'[1] = exec'[1].ret
      ]_vars

\* a script that showed a tag and then ran a with-block of a context with a
\* default page has returned: the sidebar function and then the page_sidebar
\* function were called, the default page function was not, and the value
\* returned is the page_sidebar call's
C19_Witness ==
    /\ exec[1].pc = "returned"
    /\ Len(calls) = 2
    /\ calls[1].fn = "sidebar"
    /\ calls[2].fn = "page_sidebar"
    /\ ctxs[1].fn = DEFAULT_PAGE_FUNCTION /\ ctxs[1].state = "Exited"
    /\ exec[1].ret =
         Call("page_sidebar", <<TagA, Call("sidebar", <<>>, <<>>)>>, <<>>)

RECURSIVE Inside(_, _)
\* the value x is the tag t or is among the arguments of t, at any depth
Inside(t, x) ==
    \/ t = x
    \/ /\ Len(t[2]) = 3
       /\ \E i \in DOMAIN t[2][2] : Inside(t[2][2][i], x)

\* C20: no captured value is lost.  When run_express returns, every non-null
\* value an expression statement showed and the result of every with-block
\* is in the page returned, as an argument of the page or of a nested
\* result.  Stated of executions whose script only shows values and enters
\* and leaves with-blocks (it makes no call of
\* replace_top_level_recall_context_manager of its own).
C20_NoCapturedValueLost ==
    (exec[1].pc = "returned" /\ exec[1].cm = 0) =>
        /\ \A i \in DOMAIN exec[1].shown :
               exec[1].shown[i] # NoneVal =>
                   Inside(exec[1].ret, Converted(exec[1].shown[i]))
        /\ \A i \in DOMAIN calls :
               Inside(exec[1].ret, Call(calls[i].fn, calls[i].args, calls[i].kwargs))

\* C21: subset_frame returns no column but those selected.  When a name
\* among the column selectors is the name of no column of the frame, the
\* call fails; and in a frame it returns, the column standing for a name
\* selector has that name.
C21_UnknownNameFails ==
    (out.op = "subset_frame" /\ out.cols[1] = "list") =>
        LET src == frames[out.src]
            sels == out.cols[2]
            named(sel) == \E c \in DOMAIN src.names : src.names[c] = sel[2]
        IN  /\ (\E j \in DOMAIN sels : IsStr(sels[j]) /\ ~named(sels[j])) =>
                   (out.status # "ok" /\ out.res = 0)
            /\ out.status = "ok" =>
                   \A j \in DOMAIN sels :
                       IsStr(sels[j]) => frames[out.res].names[j] = sels[j][2]

====
